---- MODULE Spec2Model ----
(***************************************************************************)
(* Budget tracker (src/budget_app.py): the CSV import pipeline, the        *)
(* categorizer, manual expense entry, category management and month        *)
(* creation, as a state machine.  One action is one run of the Streamlit   *)
(* script: it reloads config/data/rules from their files (lines 96-98),    *)
(* runs the selected page's handler and, where the handler gets that far,  *)
(* saves.                                                                  *)
(*                                                                         *)
(* Text is a sequence of one-character strings.  Money is an integer       *)
(* number of thousandths of a dollar (Scale per dollar): the amounts of    *)
(* the model are decimal numerals of at most three fraction digits, and    *)
(* their sums and differences are exact.  The binary rounding of Python    *)
(* floats and the special float literals (nan, inf, exponents) are outside *)
(* the input alphabet of the model.                                        *)
(***************************************************************************)
EXTENDS Integers, Sequences, FiniteSets, TLC

VARIABLES config, data, disk, rules, last

vars == <<config, data, disk, rules, last>>

\* ------------------------------------------------------------------ bounds
MaxLedger == 2

\* ------------------------------------------------------- program constants
Scale == 1000
Tolerance == Scale \div 100
CentUnit == Scale \div 100

None == "<None>"
NoneCell == <<None>>

\* ------------------------------------------------------------------- text
LowerLetters ==
  <<"a", "b", "c", "d", "e", "f", "g", "h", "i", "j", "k", "l", "m",
    "n", "o", "p", "q", "r", "s", "t", "u", "v", "w", "x", "y", "z">>
UpperLetters ==
  <<"A", "B", "C", "D", "E", "F", "G", "H", "I", "J", "K", "L", "M",
    "N", "O", "P", "Q", "R", "S", "T", "U", "V", "W", "X", "Y", "Z">>
Digits == <<"0", "1", "2", "3", "4", "5", "6", "7", "8", "9">>

UpperChar(c) ==
  IF \E i \in 1..Len(LowerLetters) : LowerLetters[i] = c
    THEN UpperLetters[CHOOSE i \in 1..Len(LowerLetters) : LowerLetters[i] = c]
    ELSE c

\* str.upper()
Upper(s) == [i \in 1..Len(s) |-> UpperChar(s[i])]

\* the Python operator `needle in haystack` on strings
IsSubstring(needle, haystack) ==
  \E k \in 0..(Len(haystack) - Len(needle)) :
    \A i \in 1..Len(needle) : haystack[k + i] = needle[i]

\* ------------------------------------------------------------ categorizer
\* rules["learned_rules"] and rules["keyword_rules"] are dicts in insertion
\* order: sequences of <<key, category>> with pairwise distinct keys.
RECURSIVE FirstMatch(_, _)
FirstMatch(items, description_upper) ==
  IF items = <<>> THEN None
  ELSE IF IsSubstring(Upper(Head(items)[1]), description_upper)
         THEN Head(items)[2]
         ELSE FirstMatch(Tail(items), description_upper)

\* auto_categorize with its two loops in the other order
auto_categorize_keyword_first(description, rs) ==
  LET description_upper == Upper(description)
      kw == FirstMatch(rs.keyword_rules, description_upper)
  IN  IF kw # None THEN kw
      ELSE FirstMatch(rs.learned_rules, description_upper)

auto_categorize(description, rs) ==
  LET description_upper == Upper(description)
      learned == FirstMatch(rs.learned_rules, description_upper)
  IN  IF learned # None THEN learned
      ELSE FirstMatch(rs.keyword_rules, description_upper)

\* load_rules() when categorization_rules.json does not exist
DefaultRules ==
  [keyword_rules |->
     << << <<"W", "H", "O", "L", "E", " ", "F", "O", "O", "D", "S">>, "Necessities" >>,
        << <<"T", "R", "A", "D", "E", "R", " ", "J", "O", "E">>, "Necessities" >>,
        << <<"W", "A", "L", "M", "A", "R", "T">>, "Necessities" >>,
        << <<"T", "A", "R", "G", "E", "T">>, "Necessities" >>,
        << <<"S", "T", "A", "R", "B", "U", "C", "K", "S">>, "Discretionary" >>,
        << <<"C", "H", "I", "P", "O", "T", "L", "E">>, "Discretionary" >>,
        << <<"S", "H", "E", "L", "L">>, "Necessities" >>,
        << <<"C", "H", "E", "V", "R", "O", "N">>, "Necessities" >>,
        << <<"U", "B", "E", "R">>, "Necessities" >>,
        << <<"N", "E", "T", "F", "L", "I", "X">>, "Discretionary" >>,
        << <<"A", "M", "A", "Z", "O", "N">>, "Discretionary" >> >>,
   learned_rules |-> << >>]

\* a categorization_rules.json whose learned_rules overlap the keywords
LearnedRules ==
  [keyword_rules |-> DefaultRules.keyword_rules,
   learned_rules |->
     << << <<"u", "b", "e">>, "Discretionary" >>,
        << <<"U", "b", "e", "r">>, "Necessities" >>,
        << <<"N", "e", "t", "f", "l", "i", "x">>, "Necessities" >>,
        << <<"c", "a", "f">>, "Discretionary" >> >>]

RuleFiles == {DefaultRules, LearnedRules}

\* ----------------------------------------------------------- CSV parsing
StripCommas(s) ==
  LET NotComma(c) == c # "," IN SelectSeq(s, NotComma)

IsDigit(c) == \E i \in 1..Len(Digits) : Digits[i] = c

DigitValue(c) == (CHOOSE i \in 1..Len(Digits) : Digits[i] = c) - 1

RECURSIVE DigitsValue(_)
DigitsValue(s) ==
  IF s = <<>> THEN 0
  ELSE DigitsValue(SubSeq(s, 1, Len(s) - 1)) * 10 + DigitValue(s[Len(s)])

RECURSIVE Pow10(_)
Pow10(n) == IF n = 0 THEN 1 ELSE 10 * Pow10(n - 1)

\* float(s) for the decimal numerals [sign] digits [. digits] and for text
\* that is no numeral (ValueError): ok is FALSE where float() raises, value
\* is the number in thousandths.
ParseFloat(s) ==
  LET signed == s # <<>> /\ s[1] \in {"-", "+"}
      body   == IF signed THEN Tail(s) ELSE s
      dots   == {i \in 1..Len(body) : body[i] = "."}
      dot    == IF dots = {} THEN Len(body) + 1 ELSE CHOOSE i \in dots : TRUE
      whole  == SubSeq(body, 1, dot - 1)
      frac   == SubSeq(body, dot + 1, Len(body))
      wellFormed ==
        /\ Cardinality(dots) <= 1
        /\ \A i \in 1..Len(body) : i \in dots \/ IsDigit(body[i])
        /\ Len(whole) + Len(frac) >= 1
        /\ Len(frac) <= 3
      magnitude == DigitsValue(whole) * Scale
                     + DigitsValue(frac) * Pow10(3 - Len(frac))
  IN  IF wellFormed
        THEN [ok |-> TRUE,
              value |-> IF signed /\ s[1] = "-" THEN 0 - magnitude ELSE magnitude]
        ELSE [ok |-> FALSE, value |-> 0]

Abs(x) == IF x < 0 THEN 0 - x ELSE x

\* csv.DictReader: one dict per non-blank line, keyed by the header; a line
\* shorter than the header leaves the missing keys at None (restval).
DictRow(header, cells) ==
  [k \in {header[i] : i \in 1..Len(header)} |->
     LET i == CHOOSE j \in 1..Len(header) : header[j] = k
     IN  IF i <= Len(cells) THEN cells[i] ELSE NoneCell]

DictReader(file) ==
  LET NotBlank(cells) == cells # <<>>
      lines == SelectSeq(file.rows, NotBlank)
  IN  [i \in 1..Len(lines) |-> DictRow(file.header, lines[i])]

\* dict.get(key, default)
Get(row, key, default) == IF key \in DOMAIN row THEN row[key] ELSE default

ExcludedTypes ==
  { <<"C", "R", "E", "D", "I", "T">>,
    <<"D", "E", "P", "O", "S", "I", "T">>,
    <<"A", "C", "H", "_", "C", "R", "E", "D", "I", "T">>,
    <<"D", "S", "L", "I", "P">> }

NoTrans == [description |-> <<>>, amount |-> 0, date |-> <<>>]

\* one iteration of the row loop: "emit" appends trans, "skip" is a
\* continue, "abort" is the AttributeError of calling .upper() or
\* .replace() on None, which nothing catches.
ParseRow(row) ==
  LET description == Get(row, "Description", Get(row, "Details", <<>>))
      amount_str  == Get(row, "Amount", <<"0">>)
      date_str    == Get(row, "Posting Date", Get(row, "Date", <<>>))
      type_raw    == Get(row, "Type", <<>>)
      parsed      == ParseFloat(StripCommas(amount_str))
  IN  IF type_raw = NoneCell THEN [outcome |-> "abort", trans |-> NoTrans]
      ELSE IF description \in {<<>>, NoneCell}
        THEN [outcome |-> "skip", trans |-> NoTrans]
      ELSE IF amount_str = NoneCell
        THEN [outcome |-> "abort", trans |-> NoTrans]
      ELSE IF ~parsed.ok THEN [outcome |-> "skip", trans |-> NoTrans]
      ELSE IF parsed.value >= 0 THEN [outcome |-> "skip", trans |-> NoTrans]
      ELSE IF Upper(type_raw) \in ExcludedTypes
        THEN [outcome |-> "skip", trans |-> NoTrans]
      ELSE [outcome |-> "emit",
            trans |-> [description |-> description,
                       amount |-> Abs(parsed.value),
                       date |-> date_str]]

\* the loop over csv_reader: the transactions list, or aborted when a row
\* raises.
RECURSIVE ParseRows(_, _)
ParseRows(rows, transactions) ==
  IF rows = <<>> THEN [aborted |-> FALSE, transactions |-> transactions]
  ELSE LET r == ParseRow(Head(rows))
       IN  IF r.outcome = "abort"
             THEN [aborted |-> TRUE, transactions |-> transactions]
           ELSE IF r.outcome = "emit"
             THEN ParseRows(Tail(rows), Append(transactions, r.trans))
           ELSE ParseRows(Tail(rows), transactions)

\* -------------------------------------------------------- duplicate check
\* the comparison of line 268 with .upper() on the candidate only
IsDuplicateOneUpper(trans, existing_expenses) ==
  \E i \in 1..Len(existing_expenses) :
    /\ existing_expenses[i].description = Upper(trans.description)
    /\ Abs(existing_expenses[i].amount - trans.amount) < Tolerance

IsDuplicate(trans, existing_expenses) ==
  \E i \in 1..Len(existing_expenses) :
    /\ Upper(existing_expenses[i].description) = Upper(trans.description)
    /\ Abs(existing_expenses[i].amount - trans.amount) < Tolerance

\* a duplicate check that also compares a candidate with the candidates
\* accepted before it
RECURSIVE CheckDuplicatesInBatch(_, _, _, _)
CheckDuplicatesInBatch(transactions, existing_expenses, duplicates, new_transactions) ==
  IF transactions = <<>>
    THEN [duplicates |-> duplicates, new_transactions |-> new_transactions]
  ELSE LET trans == Head(transactions)
       IN  IF IsDuplicate(trans, existing_expenses)
                \/ IsDuplicate(trans, new_transactions)
             THEN CheckDuplicatesInBatch(Tail(transactions), existing_expenses,
                                         Append(duplicates, trans), new_transactions)
             ELSE CheckDuplicatesInBatch(Tail(transactions), existing_expenses,
                                         duplicates, Append(new_transactions, trans))

RECURSIVE CheckDuplicates(_, _, _, _)
CheckDuplicates(transactions, existing_expenses, duplicates, new_transactions) ==
  IF transactions = <<>>
    THEN [duplicates |-> duplicates, new_transactions |-> new_transactions]
  ELSE LET trans == Head(transactions)
       IN  IF IsDuplicate(trans, existing_expenses)
             THEN CheckDuplicates(Tail(transactions), existing_expenses,
                                  Append(duplicates, trans), new_transactions)
             ELSE CheckDuplicates(Tail(transactions), existing_expenses,
                                  duplicates, Append(new_transactions, trans))

\* ----------------------------------------------------------------- state
\* config         st.session_state.config["categories"]: name -> percentage
\* data           st.session_state.data: the in-memory months
\* disk           the contents of budget_data.json
\* rules          categorization_rules.json as load_rules() returns it
\* last           what the last run of the script did and reported
EmptyMap == [x \in {} |-> x]

CategoryNames == {"Necessities", "Discretionary"}
CategoryInputs == {<<"Necessities", 60>>, <<"Discretionary", 40>>, <<"", 60>>}
Incomes == {1010}
ManualAmounts == {45300}
ManualDescriptions == { <<"U", "B", "E", "R">> }
\* current_month is datetime.now().strftime("%Y-%m"): the runs of the model
\* fall in one calendar month, and New Month can name that month or the next
current_month == "2026-11"
Months == {current_month, "2026-12"}

Put(map, key, value) ==
  [k \in DOMAIN map \cup {key} |-> IF k = key THEN value ELSE map[k]]

Remove(map, key) == [k \in DOMAIN map \ {key} |-> map[k]]

NoLast ==
  [op |-> "start", status |-> "ok", file |-> "", category |-> None,
   transactions |-> <<>>, duplicates |-> <<>>, new_transactions |-> <<>>,
   imported |-> 0]

Other == [NoLast EXCEPT !.op = "other"]

RECURSIVE SumLen(_, _)
SumLen(months, keys) ==
  IF keys = {} THEN 0
  ELSE LET k == CHOOSE x \in keys : TRUE
       IN  Len(months[k].expenses) + SumLen(months, keys \ {k})

\* the number of expenses in all the ledgers
TotalExpenses(d) == SumLen(d.months, DOMAIN d.months)

\* -------------------------------------------------------------- New Month
\* round(x, 2) of x = percentage / 100 * income, to the nearest cent; the
\* incomes and percentages of the model give no exact half cent
RoundCents(percentage, income) ==
  LET n == percentage * income
      d == 100 * CentUnit
      q == n \div d
      r == n % d
  IN  CentUnit * (IF 2 * r > d \/ (2 * r = d /\ q % 2 = 1) THEN q + 1 ELSE q)

\* a plan whose remaining is the allocation before rounding
CreatePlanUnroundedRemaining(income) ==
  [total_income |-> income,
   categories |->
     [category \in DOMAIN config |->
        [percentage |-> config[category].percentage,
         allocated |-> RoundCents(config[category].percentage, income),
         spent |-> 0,
         remaining |-> (config[category].percentage * income) \div 100]],
   remaining_after_fixed |-> income]

CreatePlan(income) ==
  [total_income |-> income,
   categories |->
     [category \in DOMAIN config |->
        [percentage |-> config[category].percentage,
         allocated |-> RoundCents(config[category].percentage, income),
         spent |-> 0,
         remaining |-> RoundCents(config[category].percentage, income)]],
   remaining_after_fixed |-> income]

\* a month record that keeps the expenses of the month it replaces
NewMonthDataKeepsLedger(month, income) ==
  [created |-> current_month, budget |-> CreatePlan(income),
   expenses |-> IF month \in DOMAIN disk.months
                  THEN disk.months[month].expenses ELSE <<>>]

NewMonthData(month, income) ==
  [created |-> current_month, budget |-> CreatePlan(income), expenses |-> <<>>]

NewMonth(month, income) ==
  /\ IF DOMAIN config = {}
       THEN /\ data' = disk
            /\ disk' = disk
            /\ last' = Other
       ELSE /\ data' = [months |-> Put(disk.months, month, NewMonthData(month, income))]
            /\ disk' = data'
            /\ last' = Other
  /\ UNCHANGED <<config, rules>>

\* ------------------------------------------------------ Manage Categories
DeleteCategory(cat_name) ==
  /\ cat_name \in DOMAIN config
  /\ config' = Remove(config, cat_name)
  /\ data' = disk
  /\ last' = Other
  /\ UNCHANGED <<disk, rules>>

AddCategory(new_cat_name, new_cat_pct) ==
  /\ IF new_cat_name \in DOMAIN config
       THEN /\ config' = config
            /\ last' = Other
     ELSE IF new_cat_name = ""
       THEN /\ config' = config
            /\ last' = Other
     ELSE /\ config' = Put(config, new_cat_name, [percentage |-> new_cat_pct])
          /\ last' = Other
  /\ data' = disk
  /\ UNCHANGED <<disk, rules>>

\* ------------------------------------------------------------ Add Expense
Expense(category, amount, description) ==
  [date |-> current_month, category |-> category, amount |-> amount,
   description |-> description]

AppendExpense(month_data, expense) ==
  [month_data EXCEPT !.expenses = Append(@, expense)]

\* the two in-place updates of lines 366-367 (317-318 in the import loop)
UpdateBudget(month_data, category, amount) ==
  [month_data EXCEPT
     !.budget.categories[category].spent = @ + amount,
     !.budget.categories[category].remaining = @ - amount]

AddExpense(category, amount, description) ==
  /\ current_month \in DOMAIN disk.months
  /\ category \in DOMAIN config
  /\ TotalExpenses(disk) < MaxLedger
  /\ LET month_data == disk.months[current_month]
         appended   == AppendExpense(month_data, Expense(category, amount, description))
         l          == [NoLast EXCEPT !.op = "add_expense", !.category = category]
     IN  IF category \notin DOMAIN month_data.budget.categories
           THEN \* KeyError at line 366, after the append of line 365
                /\ data' = [months |-> Put(disk.months, current_month, appended)]
                /\ disk' = disk
                /\ last' = [l EXCEPT !.status = "KeyError"]
           ELSE /\ data' = [months |-> Put(disk.months, current_month,
                                           UpdateBudget(appended, category, amount))]
                /\ disk' = data'
                /\ last' = l
  /\ UNCHANGED <<config, rules>>

\* ------------------------------------------------------------- Import CSV
\* the uploads of the model: the two header conventions, a debit, two equal
\* debits, rows the filters drop, a blank line, and lines shorter than the
\* header
ChaseHeader == <<"Details", "Posting Date", "Description", "Amount", "Type">>
AltHeader == <<"Date", "Details", "Amount">>

SingleFile ==
  [name |-> "single", header |-> ChaseHeader,
   rows |-> <<
     <<<<"D", "E", "B", "I", "T">>, <<"0", "1", "/", "0", "2">>, <<"U", "b", "e", "r">>, <<"-", "4", "5", ".", "3", "0">>, <<"D", "E", "B", "I", "T">>>> >>]

TwinsFile ==
  [name |-> "twins", header |-> ChaseHeader,
   rows |-> <<
     <<<<"D", "E", "B", "I", "T">>, <<"0", "1", "/", "0", "2">>, <<"U", "b", "e", "r">>, <<"-", "4", "5", ".", "3", "0">>, <<"D", "E", "B", "I", "T">>>>,
     <<<<"D", "E", "B", "I", "T">>, <<"0", "1", "/", "0", "2">>, <<"U", "b", "e", "r">>, <<"-", "4", "5", ".", "3", "0">>, <<"D", "E", "B", "I", "T">>>> >>]

MixedFile ==
  [name |-> "mixed", header |-> ChaseHeader,
   rows |-> <<
     <<<<"D", "E", "B", "I", "T">>, <<"0", "1", "/", "0", "2">>, <<>>, <<"-", "5", ".", "0", "0">>, <<"D", "E", "B", "I", "T">>>>,
     <<<<"C", "R", "E", "D", "I", "T">>, <<"0", "1", "/", "0", "2">>, <<"N", "e", "t", "f", "l", "i", "x">>, <<"1", ",", "2", "3", "4", ".", "5", "6">>, <<"c", "r", "e", "d", "i", "t">>>>,
     <<<<"D", "E", "B", "I", "T">>, <<"0", "1", "/", "0", "2">>, <<"C", "a", "f", "e">>, <<"-", "7", ".", "0", "0">>, <<"D", "E", "B", "I", "T">>>>,
     <<>>,
     <<<<"D", "E", "B", "I", "T">>, <<"0", "1", "/", "0", "2">>, <<"N", "e", "t", "f", "l", "i", "x">>, <<"-", "7", ".", "0", "0">>, <<"d", "s", "l", "i", "p">>>>,
     <<<<"D", "E", "B", "I", "T">>, <<"0", "1", "/", "0", "2">>, <<"N", "e", "t", "f", "l", "i", "x">>, <<"-", "7", ".", "0", "0">>, <<"D", "E", "B", "I", "T">>>> >>]

AltFile ==
  [name |-> "alt", header |-> AltHeader,
   rows |-> <<
     <<<<"0", "1", "/", "0", "2">>>>,
     <<<<"0", "1", "/", "0", "2">>, <<"u", "b", "e", "r">>, <<"-", "4", "5", ".", "3", "0", "5">>>>,
     <<<<"0", "1", "/", "0", "2">>, <<"S", "h", "e", "l", "l">>, <<"a", "b", "c">>>> >>]

ShortFile ==
  [name |-> "short", header |-> ChaseHeader,
   rows |-> <<
     <<<<"D", "E", "B", "I", "T">>, <<"0", "1", "/", "0", "2">>, <<"U", "b", "e", "r">>, <<"-", "4", "5", ".", "3", "0">>, <<"D", "E", "B", "I", "T">>>>,
     <<<<"D", "E", "B", "I", "T">>, <<"0", "1", "/", "0", "2">>, <<"N", "e", "t", "f", "l", "i", "x">>>>,
     <<<<"D", "E", "B", "I", "T">>, <<"0", "1", "/", "0", "2">>, <<"N", "e", "t", "f", "l", "i", "x">>, <<"-", "7", ".", "0", "0">>, <<"D", "E", "B", "I", "T">>>> >>]

ShortAltFile ==
  [name |-> "shortalt", header |-> AltHeader,
   rows |-> <<
     <<<<"0", "1", "/", "0", "2">>, <<"S", "h", "e", "l", "l">>>>,
     <<<<"0", "1", "/", "0", "2">>, <<"S", "h", "e", "l", "l">>, <<"-", "7", ".", "0", "0">>>> >>]

CsvFiles == {SingleFile, TwinsFile, MixedFile, AltFile, ShortFile, ShortAltFile}

FileNamed(name) == CHOOSE file \in CsvFiles : file.name = name

\* the transactions list of an upload (lines 224-254)
ParseCsv(file) == ParseRows(DictReader(file), <<>>)

FileNames == {file.name : file \in CsvFiles}

Transactions == [name \in FileNames |-> ParseCsv(FileNamed(name))]

\* the descriptions the uploads can put in new_transactions
Descriptions ==
  UNION {{Transactions[name].transactions[i].description :
            i \in 1..Len(Transactions[name].transactions)} : name \in FileNames}

\* auto_categorize on each of them, under each rules file
Categories == [rs \in RuleFiles |-> [d \in Descriptions |-> auto_categorize(d, rs)]]

\* the loop of lines 304-323 over new_transactions: the month as the loop
\* leaves it, the count, and whether line 317 raised KeyError
RECURSIVE ImportLoop(_, _, _)
ImportLoop(new_transactions, month_data, imported) ==
  IF new_transactions = <<>>
    THEN [month_data |-> month_data, imported |-> imported, raised |-> FALSE]
  ELSE LET trans    == Head(new_transactions)
           category == Categories[rules][trans.description]
       IN  IF category # None /\ category \in DOMAIN config
             THEN LET appended ==
                        AppendExpense(month_data,
                                      Expense(category, trans.amount, trans.description))
                  IN  IF category \notin DOMAIN month_data.budget.categories
                        THEN [month_data |-> appended, imported |-> imported,
                              raised |-> TRUE]
                        ELSE ImportLoop(Tail(new_transactions),
                                        UpdateBudget(appended, category, trans.amount),
                                        imported + 1)
             ELSE ImportLoop(Tail(new_transactions), month_data, imported)

ImportCSV(file) ==
  /\ current_month \in DOMAIN disk.months
  /\ LET parsed == Transactions[file.name]
         existing_expenses == disk.months[current_month].expenses
         checked == CheckDuplicates(parsed.transactions, existing_expenses, <<>>, <<>>)
         loop == ImportLoop(checked.new_transactions, disk.months[current_month], 0)
         l == [NoLast EXCEPT !.op = "import", !.file = file.name]
     IN  IF parsed.aborted
           THEN /\ data' = disk
                /\ disk' = disk
                /\ last' = [l EXCEPT !.status = "AttributeError"]
         ELSE IF parsed.transactions = <<>>
           THEN /\ data' = disk
                /\ disk' = disk
                /\ last' = [l EXCEPT !.status = "no_transactions"]
         ELSE IF checked.new_transactions = <<>>
           THEN /\ data' = disk
                /\ disk' = disk
                /\ last' = [l EXCEPT !.status = "all_duplicates",
                                     !.transactions = parsed.transactions,
                                     !.duplicates = checked.duplicates,
                                     !.new_transactions = checked.new_transactions]
         ELSE /\ data' = [months |-> Put(disk.months, current_month, loop.month_data)]
              /\ TotalExpenses(data') <= MaxLedger
              /\ disk' = IF loop.raised THEN disk ELSE data'
              /\ last' = [l EXCEPT !.status = IF loop.raised THEN "KeyError" ELSE "ok",
                                   !.transactions = parsed.transactions,
                                   !.duplicates = checked.duplicates,
                                   !.new_transactions = checked.new_transactions,
                                   !.imported = loop.imported]
  /\ UNCHANGED <<config, rules>>

\* ------------------------------------------------- Dashboard and Summary
\* a run of a read-only page: only the reload of lines 96-98 acts
ViewPage ==
  /\ data' = disk
  /\ last' = Other
  /\ UNCHANGED <<config, disk, rules>>

\* ---------------------------------------------------------- specification
Init ==
  /\ config = EmptyMap
  /\ data = [months |-> EmptyMap]
  /\ disk = [months |-> EmptyMap]
  /\ rules \in RuleFiles
  /\ last = NoLast

Next ==
  \/ \E month \in Months, income \in Incomes : NewMonth(month, income)
  \/ \E cat_name \in CategoryNames : DeleteCategory(cat_name)
  \/ \E input \in CategoryInputs : AddCategory(input[1], input[2])
  \/ \E category \in CategoryNames, amount \in ManualAmounts,
        description \in ManualDescriptions :
       AddExpense(category, amount, description)
  \/ \E file \in CsvFiles : ImportCSV(file)
  \/ ViewPage

Spec == Init /\ [][Next]_vars

\* The ledger operations alone, over any category configuration that
\* Manage Categories can have left in budget_config.json.
Configs ==
  {[name \in {input[1] : input \in inputs} |->
      [percentage |-> (CHOOSE input \in inputs : input[1] = name)[2]]] :
     inputs \in SUBSET {input \in CategoryInputs : input[1] # ""}}

InitLedger ==
  /\ config \in Configs
  /\ data = [months |-> EmptyMap]
  /\ disk = [months |-> EmptyMap]
  /\ rules \in RuleFiles
  /\ last = NoLast

NextLedger ==
  \/ \E month \in Months, income \in Incomes : NewMonth(month, income)
  \/ \E category \in CategoryNames, amount \in ManualAmounts,
        description \in ManualDescriptions :
       AddExpense(category, amount, description)
  \/ \E file \in CsvFiles : ImportCSV(file)
  \/ ViewPage

SpecLedger == InitLedger /\ [][NextLedger]_vars

\* ================================================================ claims
Ledger(d) == d.months[current_month].expenses

PlanOf(d) == d.months[current_month].budget.categories

RECURSIVE SumAmounts(_, _)
SumAmounts(expenses, category) ==
  IF expenses = <<>> THEN 0
  ELSE (IF Head(expenses).category = category THEN Head(expenses).amount ELSE 0)
         + SumAmounts(Tail(expenses), category)

Balanced(d) ==
  \A m \in DOMAIN d.months :
    \A c \in DOMAIN d.months[m].budget.categories :
      LET entry == d.months[m].budget.categories[c]
      IN  entry.remaining = entry.allocated - entry.spent

C4_DedupSymmetry ==
  [][(/\ last.op = "import" /\ last.status = "ok"
      /\ last'.op = "import" /\ last'.file = last.file)
     => (/\ last'.transactions = last.transactions
         /\ last'.imported = 0
         /\ disk' = disk
         /\ data' = data
         /\ \A k \in (Len(Ledger(disk)) - last.imported + 1)..Len(Ledger(disk)) :
              \E i \in 1..Len(last'.duplicates) :
                /\ last'.duplicates[i].description = Ledger(disk)[k].description
                /\ last'.duplicates[i].amount = Ledger(disk)[k].amount)]_vars

\* C4 witness: the two-debit file was imported, both debits were committed,
\* and the file was then imported again: every candidate is a duplicate.
C4_Witness ==
  /\ last.op = "import" /\ last.file = "twins" /\ last.status = "all_duplicates"
  /\ Len(last.duplicates) = 2
  /\ Len(Ledger(disk)) = 2
  /\ \A k \in 1..2 : Ledger(disk)[k].description = last.duplicates[k].description
  /\ data = disk

\* C5: an import classifies a candidate as duplicate exactly when the month's
\* ledger, as it was before the import, holds an expense with the same
\* description up to case and an amount less than 0.01 away; duplicates and
\* new_transactions are the candidates of each class in input order; and a
\* run that reaches its end appends one expense for every new candidate whose
\* category is a configured one, equal candidates included.
C5_Deduplicator ==
  [][(last'.op = "import" /\ last'.status \in {"ok", "KeyError", "all_duplicates"})
     => LET before == Ledger(disk)
            InLedger(t) ==
              \E i \in 1..Len(before) :
                /\ Upper(before[i].description) = Upper(t.description)
                /\ before[i].amount - t.amount < Tolerance
                /\ t.amount - before[i].amount < Tolerance
            NotInLedger(t) == ~InLedger(t)
            Configured(t) == auto_categorize(t.description, rules) \in DOMAIN config
         IN /\ last'.duplicates = SelectSeq(last'.transactions, InLedger)
            /\ last'.new_transactions = SelectSeq(last'.transactions, NotInLedger)
            /\ last'.status = "ok" =>
                 /\ last'.imported = Len(SelectSeq(last'.new_transactions, Configured))
                 /\ Len(Ledger(disk')) = Len(before) + last'.imported]_vars

\* C5 witness: one import has committed two equal candidates, and spent rose
\* by twice their amount.
C5_Witness ==
  /\ last.op = "import" /\ last.status = "ok" /\ last.imported = 2
  /\ Len(last.new_transactions) = 2
  /\ last.new_transactions[1] = last.new_transactions[2]
  /\ Len(Ledger(disk)) = 2
  /\ \E c \in DOMAIN PlanOf(disk) :
       PlanOf(disk)[c].spent = 2 * last.new_transactions[1].amount

\* C9: for every description, auto_categorize returns the category of the
\* first learned rule whose uppercased key occurs in the uppercased
\* description; failing any, that of the first such keyword rule; failing
\* that too, None.
C9_CategorizerPrecedence ==
  \A d \in Descriptions \cup ManualDescriptions :
    LET Matching(items) ==
          {i \in 1..Len(items) : IsSubstring(Upper(items[i][1]), Upper(d))}
        First(S) == CHOOSE i \in S : \A j \in S : i <= j
        learned == Matching(rules.learned_rules)
        keyword == Matching(rules.keyword_rules)
    IN  auto_categorize(d, rules) =
          IF learned # {} THEN rules.learned_rules[First(learned)][2]
          ELSE IF keyword # {} THEN rules.keyword_rules[First(keyword)][2]
          ELSE None

\* C9 witness: an import has committed an expense whose description matches
\* two learned keys and a keyword of another category, under the category of
\* the first learned key.
C9_Witness ==
  /\ last.op = "import" /\ last.status = "ok"
  /\ \E i \in 1..Len(Ledger(disk)) :
       LET e == Ledger(disk)[i]
       IN  /\ e.description = <<"U", "b", "e", "r">>
           /\ e.category = "Discretionary"
           /\ rules.learned_rules # <<>>
           /\ rules.learned_rules[1][2] = "Discretionary"
           /\ IsSubstring(Upper(rules.learned_rules[1][1]), Upper(e.description))
           /\ IsSubstring(Upper(rules.learned_rules[2][1]), Upper(e.description))
           /\ \E k \in 1..Len(rules.keyword_rules) :
                /\ IsSubstring(Upper(rules.keyword_rules[k][1]), Upper(e.description))
                /\ rules.keyword_rules[k][2] = "Necessities"

Consistent(d) ==
  \A m \in DOMAIN d.months :
    /\ \A c \in DOMAIN d.months[m].budget.categories :
         d.months[m].budget.categories[c].spent = SumAmounts(d.months[m].expenses, c)
    /\ \A i \in 1..Len(d.months[m].expenses) :
         d.months[m].expenses[i].category \in DOMAIN d.months[m].budget.categories

C2_UnknownCategoryLeavesLedger ==
  [][(/\ last'.op = "add_expense"
      /\ last'.category \notin DOMAIN PlanOf(disk))
     => (/\ last'.status # "ok"
         /\ data'.months[current_month] = disk.months[current_month]
         /\ disk' = disk)]_vars

\* C3: an import commits a new candidate exactly when auto_categorize gives
\* a category of the month's plan: the run reaches its end, appends one
\* expense per such candidate in order, adds its amount to spent and takes it
\* from remaining, and touches nothing for the others.
C3_ImportCommitsIffInPlan ==
  [][(last'.op = "import" /\ last'.status \in {"ok", "KeyError"})
     => LET before == disk.months[current_month]
            after == data'.months[current_month]
            InPlan(t) == auto_categorize(t.description, rules) \in DOMAIN before.budget.categories
            committed == SelectSeq(last'.new_transactions, InPlan)
            appended ==
              [i \in 1..Len(committed) |->
                 Expense(auto_categorize(committed[i].description, rules),
                         committed[i].amount, committed[i].description)]
        IN  /\ last'.status = "ok"
            /\ last'.imported = Len(committed)
            /\ after.expenses = before.expenses \o appended
            /\ \A c \in DOMAIN before.budget.categories :
                 /\ after.budget.categories[c].spent
                      = before.budget.categories[c].spent + SumAmounts(appended, c)
                 /\ after.budget.categories[c].remaining
                      = before.budget.categories[c].remaining - SumAmounts(appended, c)]_vars

\* the row filter as section 4.1 of the specification words it: the
\* description is Description or, when that is empty, Details
Cell(row, key) ==
  IF key \in DOMAIN row /\ row[key] # NoneCell THEN row[key] ELSE <<>>

ClaimedDescription(row) ==
  IF Cell(row, "Description") # <<>> THEN Cell(row, "Description")
  ELSE Cell(row, "Details")

ClaimedEmits(row) ==
  /\ ClaimedDescription(row) # <<>>
  /\ ParseFloat(StripCommas(Cell(row, "Amount"))).ok
  /\ ParseFloat(StripCommas(Cell(row, "Amount"))).value < 0
  /\ Upper(Cell(row, "Type")) \notin ExcludedTypes

ClaimedCandidates(file) ==
  LET emitted == SelectSeq(DictReader(file), ClaimedEmits)
  IN  [i \in 1..Len(emitted) |->
         [description |-> ClaimedDescription(emitted[i]),
          amount |-> Abs(ParseFloat(StripCommas(Cell(emitted[i], "Amount"))).value),
          date |-> IF Cell(emitted[i], "Posting Date") # <<>>
                     THEN Cell(emitted[i], "Posting Date")
                     ELSE Cell(emitted[i], "Date")]]

\* C6: the candidates of an upload whose parsing ran to its end are, in row
\* order, the rows with a non-empty description (Description, or Details when
\* Description is empty), an amount that parses and is negative, and a Type
\* outside the exclusion set, each with the absolute amount.
C6_ParserEmitsIff ==
  (last.op = "import" /\ last.status # "AttributeError")
    => last.transactions = ClaimedCandidates(FileNamed(last.file))

\* C7: a month's ledger only grows at its end: every expense of the ledger
\* in budget_data.json is there, at its position and unchanged, after every
\* step.
C7_LedgerAppendOnly ==
  [][\A m \in DOMAIN disk.months :
       /\ m \in DOMAIN disk'.months
       /\ Len(disk'.months[m].expenses) >= Len(disk.months[m].expenses)
       /\ SubSeq(disk'.months[m].expenses, 1, Len(disk.months[m].expenses))
            = disk.months[m].expenses]_vars

\* C8: no row aborts an import: the parsing of every upload runs to its end
\* and yields a candidate for every row that passes the filters.
C8_MalformedRowNeverAborts ==
  last.op = "import"
    => /\ last.status # "AttributeError"
       /\ LET Emits(row) == ParseRow(row).outcome = "emit"
          IN  Len(last.transactions)
                = Len(SelectSeq(DictReader(FileNamed(last.file)), Emits))

====
